---- MODULE Spec2Model ----
(***************************************************************************)
(* Model of lytest/kdb_xor.py: the import-time choice of the XOR engine,   *)
(* the three run_xor implementations (klayout.db, klayout subprocess,      *)
(* phidl/gdspy) and the command-line entry point.                          *)
(*                                                                         *)
(* Geometry is modelled on a grid of unit pixels of the database grid: a   *)
(* Region is the set of pixels it covers, XOR is the symmetric difference  *)
(* of pixel sets and Region.size(-d) removes every pixel closer than d     *)
(* pixels to the outside (klayout's default sizing mode keeps right-angle  *)
(* corners sharp, so for Manhattan shapes the shrink is the erosion by a   *)
(* square of half-width d).                                                *)
(***************************************************************************)
EXTENDS Integers, Sequences, FiniteSets, TLC

VARIABLES
    on_path,        \* is the klayout executable on the execution path
    imported,       \* outcome of each import statement tried so far
    pc,             \* position in the module body / in the running function
    using_phidl,    \* module global (line 5, 13)
    using_macros,   \* module global (line 5, 15)
    run_xor,        \* which function the module-level name run_xor is bound to
    tolerance,      \* args.tol
    verbose,        \* args.verbose
    l1, l2,         \* the two layouts as read from file1 and file2
    layer_pairs,    \* list of (ll1, ll2) layer indices
    topcell_pairs,  \* list of top cell names present in both layouts
    k,              \* number of (top cell, layer) pairs the XOR loop has done
    evaluated,      \* the (top cell, layer) pairs a Region pair was built for, in order
    diff,           \* local variable diff of run_xor
    stdout,         \* lines printed to standard output
    exc,            \* the exception propagating out of run_xor, or NoExc
    launches,       \* number of subprocesses started
    proc,           \* what happened to the subprocess
    exitcode        \* exit status of the interpreter, Running while it runs

vars == <<on_path, imported, pc, using_phidl, using_macros, run_xor, tolerance, verbose, l1, l2,
          layer_pairs, topcell_pairs, k, evaluated, diff, stdout, exc, launches,
          proc, exitcode>>

----------------------------------------------------------------------------
(* Bounds of the model *)

\* largest --tol value tried
MaxTol == 2
\* side of the largest square a layout file holds, in database units
MaxW == 3

----------------------------------------------------------------------------
(* Values *)

\* 1e-6, the dbu epsilon of line 56, in units of 1e-7
Eps == 10
\* exit status given to sys.exit on a GeometryDifference
ExitDiff == 1
\* exit status of the interpreter after an uncaught exception
ExitUncaught == 1

\* the modules lines 8, 11 and 12 import
Modules == {"klayout.db", "phidl", "gdspy", "phidl.geometry"}

\* the LayerInfo values the example library draws on
LayerInfos == <<"1/0", "2/0">>

\* top cell names, in the order list.sort() puts them
CellNames == <<"AUX", "TOP">>

\* database units, in units of 1e-7: 0.001, 0.0010005, 0.00101
Dbus == {10000, 10005, 10100}

Range(s) == {s[i] : i \in 1..Len(s)}

\* side lengths, in database units, of the squares the files compared hold
Widths == {1, MaxW}

Null == [layers |-> <<>>, cells |-> {}, dbu |-> 0, shapes |-> {}, loaded |-> FALSE]
Running == 0 - 1

\* the layer tables a layout can have: lists of distinct LayerInfos
LayerTables ==
    {<<>>} \cup {<<a>> : a \in Range(LayerInfos)}
           \cup {<<a, b>> : <<a, b>> \in {p \in Range(LayerInfos) \X Range(LayerInfos) : p[1] # p[2]}}

CellSets == SUBSET Range(CellNames) \ {{}}

\* the shapes of a file run_xor reads: none, or one square on one layer of one
\* top cell. The files are inputs of run_xor; they are not limited to what
\* put_box of the example library draws (a w x 30 micron box)
ShapeSets(layers, cells) ==
    {{}} \cup {{s} : s \in [cell : cells, layer : Range(layers), w : Widths]}

\* every layout a file can hold
Layouts ==
    UNION { UNION { { [layers |-> lt, cells |-> cs, dbu |-> d, shapes |-> S, loaded |-> TRUE]
                      : d \in Dbus, S \in ShapeSets(lt, cs) }
                    : cs \in CellSets }
            : lt \in LayerTables }

----------------------------------------------------------------------------
(* Exceptions and messages *)

Msg(template, layer, files, names, dbus, guidance) ==
    [template |-> template, layer |-> layer, files |-> files, names |-> names,
     dbus |-> dbus, guidance |-> guidance]

\* the format strings of the messages run_xor raises with
LayerTemplate == "Layer {} of layout {} not present in layout {}."
TopcellTemplate == "Missing topcell on one of the layouts, or name differs:\n{}\n{}"
DbuTemplate == "Database unit of layout {} ({}) differs from that of layout {} ({})."
DiffTemplate == "Differences found between layouts {} and {}"

NoMsg == Msg("", "", <<>>, <<>>, <<>>, FALSE)

NoExc == [type |-> "None", args |-> NoMsg, oserror |-> FALSE]

GeometryDifference(msg) == [type |-> "GeometryDifference", args |-> msg, oserror |-> FALSE]

\* str(err): an OSError with errno and strerror set formats itself from those
\* attributes and never reads args; every other exception shows args[0]
Str(e) ==
    IF e.oserror
    THEN Msg("[Errno 2] No such file or directory: 'klayout'", "", <<>>, <<>>, <<>>, FALSE)
    ELSE e.args

----------------------------------------------------------------------------
(* The geometry engine (klayout.db) *)

\* the database-unit pixels a square of side w with its lower left corner at
\* the origin covers, as the shape iterator of lines 63-64 delivers it
Box(w) == (0..(w - 1)) \X (0..(w - 1))

\* find_layer gone wrong: the first layer of the table whatever info is asked for
find_layer_first(l, info) == IF Len(l.layers) > 0 THEN 1 ELSE 0

\* Layout.find_layer(info): the index of the layer, None (0 here) when absent
find_layer(l, info) ==
    IF \E i \in 1..Len(l.layers) : l.layers[i] = info
    THEN CHOOSE i \in 1..Len(l.layers) : l.layers[i] = info
    ELSE 0

\* kdb.Region(cell.begin_shapes_rec(layer_index)): everything under the cell on the layer
Region(l, cell, ll) ==
    UNION {Box(s.w) : s \in {t \in l.shapes : t.cell = cell /\ t.layer = l.layers[ll]}}

\* the XOR gone wrong: r1 | r2
XorAsUnion(r1, r2) == r1 \cup r2

\* r1 ^ r2
Xor(r1, r2) == (r1 \ r2) \cup (r2 \ r1)

\* Region.size(d) for d <= 0: each edge moves inwards by -d
Size(r, d) ==
    {p \in r : \A dx \in d..(0 - d), dy \in d..(0 - d) : <<p[1] + dx, p[2] + dy>> \in r}

\* the emptiness test gone wrong: negated
is_empty_negated(r) == r # {}

is_empty(r) == r = {}

\* lines 66-71 for one pair of regions: is the XOR still there after the shrink
PairDiffers(r1, r2, tol) ==
    LET rxor == Xor(r1, r2)
        sized == IF tol > 0 THEN Size(rxor, 0 - tol) ELSE rxor
    IN  ~ is_empty(sized)

----------------------------------------------------------------------------
(* run_xor, the klayout.db implementation: the structural checks *)

RECURSIVE PairLayers(_, _, _)
\* lines 30-36: the list of (ll1, ll2) built before the first layer of l1 that
\* l2 lacks; the loop stops there
PairLayers(a, b, i) ==
    IF i > Len(a.layers) \/ find_layer(b, a.layers[i]) = 0
    THEN <<>>
    ELSE <<<<i, find_layer(b, a.layers[i])>>>> \o PairLayers(a, b, i + 1)

\* the indices of the layers of a that b does not have
MissingIn(a, b) == {i \in 1..Len(a.layers) : find_layer(b, a.layers[i]) = 0}

Min(S) == CHOOSE x \in S : \A y \in S : x <= y

\* lines 45-48: [tc.name for tc in l.top_cells()] followed by sort()
SortedNames(l) == SelectSeq(CellNames, LAMBDA n : n \in l.cells)

\* line 56: the condition under which the dbu check raises
DbuDiffers(a, b) == (a.dbu - b.dbu) > Eps

\* the (top cell, layer pair) combinations in the order lines 61-62 visit them
PairAt(tps, lps, i) ==
    [cell |-> tps[((i - 1) \div Len(lps)) + 1], lp |-> lps[((i - 1) % Len(lps)) + 1]]

NumPairs(tps, lps) == Len(tps) * Len(lps)

----------------------------------------------------------------------------
(* The module body: lines 5-15, 22, 100-101, 138-139 *)

Init ==
    /\ on_path \in BOOLEAN
    /\ imported = [m \in Modules |-> "untried"]
    /\ pc = "import_kdb"
    /\ using_phidl = FALSE
    /\ using_macros = FALSE
    /\ run_xor = "unbound"
    /\ tolerance = 0
    /\ verbose = FALSE
    /\ l1 = Null
    /\ l2 = Null
    /\ layer_pairs = <<>>
    /\ topcell_pairs = <<>>
    /\ k = 0
    /\ evaluated = <<>>
    /\ diff = FALSE
    /\ stdout = <<>>
    /\ exc = NoExc
    /\ launches = 0
    /\ proc = "none"
    /\ exitcode = Running

\* lines 6-9: try: import klayout.db as kdb; the import works or raises ImportError
ImportKdb ==
    /\ pc = "import_kdb"
    /\ \E ok \in BOOLEAN :
          /\ imported' = [imported EXCEPT !["klayout.db"] = IF ok THEN "ok" ELSE "missing"]
          /\ pc' = IF ok THEN "def_run_xor" ELSE "import_phidl"
    /\ UNCHANGED <<on_path, using_phidl, using_macros, run_xor, tolerance, verbose, l1, l2,
                   layer_pairs, topcell_pairs, k, evaluated, diff, stdout, exc, launches,
                   proc, exitcode>>

\* lines 10-15: try: import phidl, gdspy; import phidl.geometry as pg;
\* using_phidl = True; except ImportError: using_macros = True. The imports
\* run in the order phidl, gdspy, phidl.geometry and the first one that
\* raises ends the try block, so the later ones are not tried
ImportPhidl ==
    /\ pc = "import_phidl"
    /\ \E r \in {<<"ok", "ok", "ok">>, <<"ok", "ok", "missing">>,
                 <<"ok", "missing", "untried">>, <<"missing", "untried", "untried">>} :
          /\ imported' = [imported EXCEPT !["phidl"] = r[1], !["gdspy"] = r[2],
                                          !["phidl.geometry"] = r[3]]
          /\ IF r = <<"ok", "ok", "ok">>
             THEN using_phidl' = TRUE /\ UNCHANGED using_macros
             ELSE using_macros' = TRUE /\ UNCHANGED using_phidl
    /\ pc' = "def_run_xor"
    /\ UNCHANGED <<on_path, run_xor, tolerance, verbose, l1, l2,
                   layer_pairs, topcell_pairs, k, evaluated, diff, stdout, exc, launches,
                   proc, exitcode>>

\* line 22: def run_xor binds the name to the klayout.db implementation
DefRunXor ==
    /\ pc = "def_run_xor"
    /\ run_xor' = "run_xor"
    /\ pc' = "bind_macros"
    /\ UNCHANGED <<on_path, imported, using_phidl, using_macros, tolerance, verbose, l1, l2,
                   layer_pairs, topcell_pairs, k, evaluated, diff, stdout, exc, launches,
                   proc, exitcode>>

\* lines 100-101: if using_macros: run_xor = run_xor_pya
BindMacros ==
    /\ pc = "bind_macros"
    /\ run_xor' = IF using_macros THEN "run_xor_pya" ELSE run_xor
    /\ pc' = "bind_phidl"
    /\ UNCHANGED <<on_path, imported, using_phidl, using_macros, tolerance, verbose, l1, l2,
                   layer_pairs, topcell_pairs, k, evaluated, diff, stdout, exc, launches,
                   proc, exitcode>>

\* the rebinding gone wrong: run_xor = run_xor_phidl without the test of using_phidl
BindPhidlAlways ==
    /\ pc = "bind_phidl"
    /\ run_xor' = "run_xor_phidl"
    /\ pc' = "main"
    /\ UNCHANGED <<on_path, imported, using_phidl, using_macros, tolerance, verbose, l1, l2,
                   layer_pairs, topcell_pairs, k, evaluated, diff, stdout, exc, launches,
                   proc, exitcode>>

\* lines 138-139: if using_phidl: run_xor = run_xor_phidl
BindPhidl ==
    /\ pc = "bind_phidl"
    /\ run_xor' = IF using_phidl THEN "run_xor_phidl" ELSE run_xor
    /\ pc' = "main"
    /\ UNCHANGED <<on_path, imported, using_phidl, using_macros, tolerance, verbose, l1, l2,
                   layer_pairs, topcell_pairs, k, evaluated, diff, stdout, exc, launches,
                   proc, exitcode>>

\* lines 155-165: parse the arguments and call whatever run_xor is bound to
Main ==
    /\ pc = "main"
    /\ \E tol \in 0..MaxTol, v \in BOOLEAN :
          /\ tolerance' = tol
          /\ verbose' = v
    /\ pc' = CASE run_xor = "run_xor" -> "read1"
               [] run_xor = "run_xor_pya" -> "pya"
               [] run_xor = "run_xor_phidl" -> "import_gds1"
    /\ UNCHANGED <<on_path, imported, using_phidl, using_macros, run_xor, l1, l2,
                   layer_pairs, topcell_pairs, k, evaluated, diff, stdout, exc, launches,
                   proc, exitcode>>

----------------------------------------------------------------------------
(* run_xor, the klayout.db implementation: lines 22-80 *)

\* lines 23-24: l1 = kdb.Layout(); l1.read(file1), which raises when the file
\* cannot be read
Read1 ==
    /\ pc = "read1"
    /\ \E f \in Layouts \cup {Null} :
          IF f = Null
          THEN /\ exc' = [type |-> "RuntimeError",
                          args |-> Msg("Unable to open file", "", <<"file1">>, <<>>, <<>>, FALSE),
                          oserror |-> FALSE]
               /\ pc' = "raised"
               /\ UNCHANGED l1
          ELSE /\ l1' = f
               /\ pc' = "read2"
               /\ UNCHANGED exc
    /\ UNCHANGED <<on_path, imported, using_phidl, using_macros, run_xor, tolerance, verbose, l2,
                   layer_pairs, topcell_pairs, k, evaluated, diff, stdout, launches,
                   proc, exitcode>>

\* lines 26-27: l2 = kdb.Layout(); l2.read(file2)
Read2 ==
    /\ pc = "read2"
    /\ \E f \in Layouts \cup {Null} :
          IF f = Null
          THEN /\ exc' = [type |-> "RuntimeError",
                          args |-> Msg("Unable to open file", "", <<"file2">>, <<>>, <<>>, FALSE),
                          oserror |-> FALSE]
               /\ pc' = "raised"
               /\ UNCHANGED l2
          ELSE /\ l2' = f
               /\ pc' = "layers1"
               /\ UNCHANGED exc
    /\ UNCHANGED <<on_path, imported, using_phidl, using_macros, run_xor, tolerance, verbose, l1,
                   layer_pairs, topcell_pairs, k, evaluated, diff, stdout, launches,
                   proc, exitcode>>

\* lines 30-36: every layer of l1 must be found in l2; the pairs are collected
CheckLayers1 ==
    /\ pc = "layers1"
    /\ layer_pairs' = PairLayers(l1, l2, 1)
    /\ IF MissingIn(l1, l2) # {}
       THEN /\ exc' = GeometryDifference(
                         Msg(LayerTemplate,
                             l1.layers[Min(MissingIn(l1, l2))], <<"file1", "file2">>,
                             <<>>, <<>>, FALSE))
            /\ pc' = "raised"
       ELSE /\ pc' = "layers2"
            /\ UNCHANGED exc
    /\ UNCHANGED <<on_path, imported, using_phidl, using_macros, run_xor, tolerance, verbose, l1, l2,
                   topcell_pairs, k, evaluated, diff, stdout, launches, proc, exitcode>>

\* lines 38-42: every layer of l2 must be found in l1
CheckLayers2 ==
    /\ pc = "layers2"
    /\ IF MissingIn(l2, l1) # {}
       THEN /\ exc' = GeometryDifference(
                         Msg(LayerTemplate,
                             l2.layers[Min(MissingIn(l2, l1))], <<"file2", "file1">>,
                             <<>>, <<>>, FALSE))
            /\ pc' = "raised"
       ELSE /\ pc' = "topcells"
            /\ UNCHANGED exc
    /\ UNCHANGED <<on_path, imported, using_phidl, using_macros, run_xor, tolerance, verbose, l1, l2,
                   layer_pairs, topcell_pairs, k, evaluated, diff, stdout, launches,
                   proc, exitcode>>

\* lines 45-53: the sorted top cell names must be the same lists
CheckTopcells ==
    /\ pc = "topcells"
    /\ IF SortedNames(l1) # SortedNames(l2)
       THEN /\ exc' = GeometryDifference(
                         Msg(TopcellTemplate,
                             "", <<>>, <<SortedNames(l1), SortedNames(l2)>>, <<>>, FALSE))
            /\ pc' = "raised"
            /\ UNCHANGED topcell_pairs
       ELSE /\ topcell_pairs' = SortedNames(l1)
            /\ pc' = "dbu"
            /\ UNCHANGED exc
    /\ UNCHANGED <<on_path, imported, using_phidl, using_macros, run_xor, tolerance, verbose, l1, l2,
                   layer_pairs, k, evaluated, diff, stdout, launches, proc, exitcode>>

\* lines 56-57: if (l1.dbu - l2.dbu) > 1e-6: raise
CheckDbu ==
    /\ pc = "dbu"
    /\ IF DbuDiffers(l1, l2)
       THEN /\ exc' = GeometryDifference(
                         Msg(DbuTemplate,
                             "", <<"file1", "file2">>, <<>>, <<l1.dbu, l2.dbu>>, FALSE))
            /\ pc' = "raised"
       ELSE /\ pc' = "xor"
            /\ UNCHANGED exc
    /\ UNCHANGED <<on_path, imported, using_phidl, using_macros, run_xor, tolerance, verbose, l1, l2,
                   layer_pairs, topcell_pairs, k, evaluated, diff, stdout, launches,
                   proc, exitcode>>

\* the aggregation gone wrong: diff = (this pair differs), forgetting earlier pairs
NextDiffOverwrite(d, differs) == differs

\* lines 72-77: what one pass of the loop body does to diff
NextDiff(d, differs) == IF differs THEN TRUE ELSE d

\* lines 61-62: is there another (top cell, layer) pair to visit
MorePairs(done, d, tps, lps) == done < NumPairs(tps, lps)

\* lines 63-77: one pass of the loop body, for the next (top cell, layer) pair
XorPair ==
    /\ pc = "xor"
    /\ MorePairs(k, diff, topcell_pairs, layer_pairs)
    /\ LET pr == PairAt(topcell_pairs, layer_pairs, k + 1)
           r1 == Region(l1, pr.cell, pr.lp[1])
           r2 == Region(l2, pr.cell, pr.lp[2])
           differs == PairDiffers(r1, r2, tolerance)
       IN  /\ evaluated' = Append(evaluated, <<pr.cell, pr.lp[1]>>)
           /\ diff' = NextDiff(diff, differs)
           /\ stdout' =
                IF verbose
                THEN Append(stdout,
                            Msg(IF differs THEN "{} differences found in {} on layer {}."
                                           ELSE "No differences found in {} on layer {}.",
                                l1.layers[pr.lp[1]], <<>>, <<<<pr.cell>>>>, <<>>, FALSE))
                ELSE stdout
    /\ k' = k + 1
    /\ UNCHANGED <<on_path, imported, pc, using_phidl, using_macros, run_xor, tolerance, verbose, l1, l2,
                   layer_pairs, topcell_pairs, exc, launches, proc, exitcode>>

\* lines 79-80: after the loop, raise if any pair differed, else return
Finish ==
    /\ pc = "xor"
    /\ ~ MorePairs(k, diff, topcell_pairs, layer_pairs)
    /\ IF diff
       THEN /\ exc' = GeometryDifference(
                         Msg(DiffTemplate, "",
                             <<"file1", "file2">>, <<>>, <<>>, FALSE))
            /\ pc' = "raised"
       ELSE /\ pc' = "returned"
            /\ UNCHANGED exc
    /\ UNCHANGED <<on_path, imported, using_phidl, using_macros, run_xor, tolerance, verbose, l1, l2,
                   layer_pairs, topcell_pairs, k, evaluated, diff, stdout, launches,
                   proc, exitcode>>

----------------------------------------------------------------------------
(* run_xor_pya, the klayout subprocess implementation: lines 83-97 *)

\* line 93: err.args = (str(err.args[0]) + guidance, ); args[0] was the errno
AliasHint(e) == [e EXCEPT !.args = Msg("2", "", <<>>, <<>>, <<>>, TRUE)]

\* what subprocess.check_output raises when the executable is not on the path
FileNotFoundError ==
    [type |-> "FileNotFoundError",
     args |-> Msg("2", "", <<>>, <<>>, <<>>, FALSE),
     oserror |-> TRUE]

\* lines 85-97: one call of subprocess.check_output and the two except clauses;
\* the exit status of klayout running run_xor.rb is the tool's to decide
RunXorPya ==
    /\ pc = "pya"
    /\ launches' = launches + 1
    /\ IF ~ on_path
       THEN /\ proc' = "not_found"
            /\ exc' = AliasHint(FileNotFoundError)
            /\ pc' = "raised"
            /\ UNCHANGED stdout
       ELSE \E status \in {0, 1} :
               IF status = 0
               THEN /\ proc' = "exit_zero"
                    /\ pc' = "returned"
                    /\ UNCHANGED <<exc, stdout>>
               ELSE /\ proc' = "exit_nonzero"
                    /\ stdout' = Append(stdout,
                                        Msg("Command {} returned non-zero exit status {}.",
                                            "", <<"file1", "file2">>, <<>>, <<>>, FALSE))
                    /\ exc' = GeometryDifference(
                                 Msg(DiffTemplate, "",
                                     <<"file1", "file2">>, <<>>, <<>>, FALSE))
                    /\ pc' = "raised"
    /\ UNCHANGED <<on_path, imported, using_phidl, using_macros, run_xor, tolerance, verbose, l1, l2,
                   layer_pairs, topcell_pairs, k, evaluated, diff, exitcode>>

----------------------------------------------------------------------------
(* run_xor_phidl, the phidl/gdspy implementation: lines 104-135 *)

\* Device.get_polygons(by_spec = True).keys(): the layers that hold polygons
PolyLayers(d) == {s.layer : s \in d.shapes}

\* A_polys[layer]
Polys(d, layer) == UNION {Box(s.w) : s \in {t \in d.shapes : t.layer = layer}}

\* lines 108-127: the layers for which a polygon is added to the result; the
\* boolean XOR gives None when nothing is left
xor_polygons_phidl(A, B) ==
    {layer \in PolyLayers(A) \cup PolyLayers(B) :
        IF layer \in PolyLayers(A) /\ layer \in PolyLayers(B)
        THEN Xor(Polys(A, layer), Polys(B, layer)) # {}
        ELSE TRUE}

ValueError ==
    [type |-> "ValueError",
     args |-> Msg("import_gds() There are multiple top-level cells", "", <<>>, <<>>, <<>>, FALSE),
     oserror |-> FALSE]

\* line 131: TOP1 = pg.import_gds(file1); without a cell name import_gds
\* refuses a file that has more than one top-level cell
ImportGds1 ==
    /\ pc = "import_gds1"
    /\ \E f \in Layouts :
          IF Cardinality(f.cells) > 1
          THEN exc' = ValueError /\ pc' = "raised" /\ UNCHANGED l1
          ELSE l1' = f /\ pc' = "import_gds2" /\ UNCHANGED exc
    /\ UNCHANGED <<on_path, imported, using_phidl, using_macros, run_xor, tolerance, verbose, l2,
                   layer_pairs, topcell_pairs, k, evaluated, diff, stdout, launches,
                   proc, exitcode>>

\* line 132: TOP2 = pg.import_gds(file2)
ImportGds2 ==
    /\ pc = "import_gds2"
    /\ \E f \in Layouts :
          IF Cardinality(f.cells) > 1
          THEN exc' = ValueError /\ pc' = "raised" /\ UNCHANGED l2
          ELSE l2' = f /\ pc' = "xor_phidl" /\ UNCHANGED exc
    /\ UNCHANGED <<on_path, imported, using_phidl, using_macros, run_xor, tolerance, verbose, l1,
                   layer_pairs, topcell_pairs, k, evaluated, diff, stdout, launches,
                   proc, exitcode>>

\* lines 133-135: raise when the XOR device holds any element; tolerance and
\* verbose are not read
RunXorPhidl ==
    /\ pc = "xor_phidl"
    /\ IF Cardinality(xor_polygons_phidl(l1, l2)) > 0
       THEN /\ exc' = GeometryDifference(
                         Msg(DiffTemplate, "",
                             <<"file1", "file2">>, <<>>, <<>>, FALSE))
            /\ pc' = "raised"
       ELSE /\ pc' = "returned"
            /\ UNCHANGED exc
    /\ UNCHANGED <<on_path, imported, using_phidl, using_macros, run_xor, tolerance, verbose, l1, l2,
                   layer_pairs, topcell_pairs, k, evaluated, diff, stdout, launches,
                   proc, exitcode>>

----------------------------------------------------------------------------
(* The command line entry point: lines 164-168 *)

\* line 165 returned: the script ends and the interpreter exits with status 0
ExitReturned ==
    /\ pc = "returned"
    /\ exitcode' = 0
    /\ pc' = "exited"
    /\ UNCHANGED <<on_path, imported, using_phidl, using_macros, run_xor, tolerance, verbose, l1, l2,
                   layer_pairs, topcell_pairs, k, evaluated, diff, stdout, exc, launches,
                   proc>>

\* the handler gone wrong: print(err) without sys.exit(1), so the script ends normally
ExceptGeometryDifferenceNoExit ==
    /\ pc = "raised"
    /\ exc.type = "GeometryDifference"
    /\ stdout' = Append(stdout, Str(exc))
    /\ exitcode' = 0
    /\ pc' = "exited"
    /\ UNCHANGED <<on_path, imported, using_phidl, using_macros, run_xor, tolerance, verbose,
                   l1, l2, layer_pairs, topcell_pairs, k, evaluated, diff, exc, launches, proc>>

\* lines 166-168: except GeometryDifference as err: print(err); sys.exit(1)
ExceptGeometryDifference ==
    /\ pc = "raised"
    /\ exc.type = "GeometryDifference"
    /\ stdout' = Append(stdout, Str(exc))
    /\ exitcode' = ExitDiff
    /\ pc' = "exited"
    /\ UNCHANGED <<on_path, imported, using_phidl, using_macros, run_xor, tolerance, verbose, l1, l2,
                   layer_pairs, topcell_pairs, k, evaluated, diff, exc, launches, proc>>

\* no other except clause: the exception leaves the script, the interpreter
\* writes the traceback to standard error and exits with status 1
Uncaught ==
    /\ pc = "raised"
    /\ exc.type # "GeometryDifference"
    /\ exitcode' = ExitUncaught
    /\ pc' = "exited"
    /\ UNCHANGED <<on_path, imported, using_phidl, using_macros, run_xor, tolerance, verbose, l1, l2,
                   layer_pairs, topcell_pairs, k, evaluated, diff, stdout, exc, launches,
                   proc>>

Next ==
    \/ ImportKdb
    \/ ImportPhidl
    \/ DefRunXor
    \/ BindMacros
    \/ BindPhidl
    \/ Main
    \/ Read1
    \/ Read2
    \/ CheckLayers1
    \/ CheckLayers2
    \/ CheckTopcells
    \/ CheckDbu
    \/ XorPair
    \/ Finish
    \/ RunXorPya
    \/ ImportGds1
    \/ ImportGds2
    \/ RunXorPhidl
    \/ ExitReturned
    \/ ExceptGeometryDifference
    \/ Uncaught

Spec == Init /\ [][Next]_vars

----------------------------------------------------------------------------
(* Vocabulary of the properties *)

LayerSet(l) == Range(l.layers)

Abs(x) == IF x < 0 THEN 0 - x ELSE x

\* the klayout.db implementation is running or has run on two layouts it could read
KdbLoaded == run_xor = "run_xor" /\ l1.loaded /\ l2.loaded

\* the call is over: it returned or an exception left it
CallOver == pc \in {"returned", "raised", "exited"}

\* some (top cell, layer) pair of two structurally equal layouts differs at tolerance t
SomePairDiffers(a, b, t) ==
    \E c \in a.cells, i \in 1..Len(a.layers) :
        PairDiffers(Region(a, c, i), Region(b, c, find_layer(b, a.layers[i])), t)

----------------------------------------------------------------------------
(* C1: layouts whose layer sets differ *)

\* C1 as stated: when the layer sets of the two layouts differ, the comparison
\* ends in a StructuralMismatch error, an error type other than
\* GeometryDifference, that names a layer one side lacks and the side lacking it.
C1_StructuralMismatchForLayers ==
    (KdbLoaded /\ LayerSet(l1) # LayerSet(l2) /\ CallOver)
        => /\ exc.type = "StructuralMismatch"
           /\ exc.type # "GeometryDifference"
           /\ exc.args.template = LayerTemplate

\* C1 amended: when the layer sets of the two layouts differ, the klayout.db
\* run_xor ends, before any region is built and whatever shapes the layouts
\* hold, in a GeometryDifference whose message names a layer that one layout
\* has and the other lacks, the file that has it and then the file lacking it.
C1_LayerMismatchIsGeometryDifference ==
    (KdbLoaded /\ LayerSet(l1) # LayerSet(l2) /\ pc \notin {"layers1", "layers2"})
        => /\ pc \in {"raised", "exited"}
           /\ exc.type = "GeometryDifference"
           /\ exc.args.template = LayerTemplate
           /\ \/ /\ exc.args.files = <<"file1", "file2">>
                 /\ exc.args.layer \in LayerSet(l1) \ LayerSet(l2)
              \/ /\ exc.args.files = <<"file2", "file1">>
                 /\ exc.args.layer \in LayerSet(l2) \ LayerSet(l1)
                 /\ LayerSet(l1) \subseteq LayerSet(l2)
           /\ evaluated = <<>>

\* a layer only layout 2 has was reported, with a shape present in layout 2
C1_Witness ==
    /\ KdbLoaded
    /\ pc = "exited"
    /\ LayerSet(l1) = {"1/0"}
    /\ LayerSet(l2) = {"1/0", "2/0"}
    /\ l2.shapes # {}
    /\ exc.args.template = LayerTemplate
    /\ exc.args.layer = "2/0"
    /\ exc.args.files = <<"file2", "file1">>

----------------------------------------------------------------------------
(* C2: the database unit check *)

\* C2: with equal layer sets and equal top cell names, the comparison ends in
\* the database unit error exactly when |dbu1 - dbu2| > 1e-6, whichever of
\* the two units is the larger one.
C2_DbuCheckedBothWays ==
    (KdbLoaded /\ LayerSet(l1) = LayerSet(l2) /\ l1.cells = l2.cells /\ CallOver)
        => ((Abs(l1.dbu - l2.dbu) > Eps) <=> (exc.args.template = DbuTemplate))

----------------------------------------------------------------------------
(* C3: a single 1 x 1 square present in layout 1 only *)

\* the two layouts agree on layers, top cells and dbu; layout 1 holds one
\* 1 x 1 square on layer 1/0 of TOP and layout 2 holds nothing
UnitSquareCase ==
    /\ l1.loaded /\ l2.loaded
    /\ l1.layers = l2.layers
    /\ l1.cells = {"TOP"} /\ l2.cells = {"TOP"}
    /\ l1.dbu = l2.dbu
    /\ l1.shapes = {[cell |-> "TOP", layer |-> "1/0", w |-> 1]}
    /\ l2.shapes = {}

\* C3: in the unit square case the bound implementation, klayout.db or phidl,
\* raises GeometryDifference at tolerance 0 and returns normally at every
\* tolerance >= 1.
C3_UnitSquareErodes ==
    (run_xor \in {"run_xor", "run_xor_phidl"} /\ UnitSquareCase /\ CallOver)
        => IF tolerance = 0
           THEN exc.type = "GeometryDifference" /\ exc.args.template = DiffTemplate
           ELSE exc = NoExc

----------------------------------------------------------------------------
(* C4: raising the tolerance *)

\* C4: when the klayout.db run_xor returns normally at the tolerance it was
\* given, no (top cell, layer) pair of the same two layouts differs at any
\* larger tolerance either, so the call would return normally there too.
C4_ToleranceMonotone ==
    (run_xor = "run_xor" /\ pc = "returned")
        => \A t2 \in tolerance..(MaxTol + 1) : ~ SomePairDiffers(l1, l2, t2)

\* a comparison that passed at tolerance 1 although the layouts differ at tolerance 0
C4_Witness ==
    /\ run_xor = "run_xor"
    /\ pc = "returned"
    /\ tolerance = 1
    /\ SomePairDiffers(l1, l2, 0)
    /\ ~ SomePairDiffers(l1, l2, 2)

----------------------------------------------------------------------------
(* C5: a file against an exact copy of itself *)

\* C5: when both files hold the same layout, no check of the klayout.db or
\* of the phidl implementation raises, at any tolerance: the call returns
\* normally and the script exits with status 0.
C5_SelfCompareSame ==
    (run_xor \in {"run_xor", "run_xor_phidl"} /\ l1.loaded /\ l2.loaded /\ l1 = l2)
        => /\ exc = NoExc
           /\ ~ diff
           /\ pc # "raised"
           /\ pc = "exited" => exitcode = 0

\* a layout with a box, two layers and two top cells compared with its copy
\* at tolerance 0: all four pairs were visited and the call returned
C5_Witness ==
    /\ run_xor = "run_xor"
    /\ pc = "returned"
    /\ l1 = l2
    /\ l1.shapes # {}
    /\ tolerance = 0
    /\ Len(evaluated) = 4

----------------------------------------------------------------------------
(* C6: which implementation the module binds *)

\* the polygon-boolean pair could be imported: phidl, gdspy and phidl.geometry
PairImported ==
    /\ imported["phidl"] = "ok"
    /\ imported["gdspy"] = "ok"
    /\ imported["phidl.geometry"] = "ok"

\* the module body has run to the end
ModuleLoaded ==
    pc \notin {"import_kdb", "import_phidl", "def_run_xor", "bind_macros", "bind_phidl"}

\* C6 as stated: klayout.db when it is importable; otherwise the klayout
\* subprocess when the executable is available; otherwise phidl when the pair
\* is importable; otherwise no implementation is bound and selection fails.
C6_PriorityKdbToolPair ==
    ModuleLoaded =>
        run_xor = IF imported["klayout.db"] = "ok" THEN "run_xor"
                  ELSE IF on_path THEN "run_xor_pya"
                  ELSE IF PairImported THEN "run_xor_phidl"
                  ELSE "unbound"

\* C6 amended: once the module body has run, run_xor is bound to exactly one
\* implementation, decided by the import outcomes alone: klayout.db when it
\* is importable; otherwise phidl when phidl, gdspy and phidl.geometry are
\* all importable;
\* otherwise the klayout subprocess, whether or not the klayout executable
\* is on the path, and selection itself never fails.
C6_PriorityKdbPairTool ==
    /\ ModuleLoaded =>
          /\ run_xor = IF imported["klayout.db"] = "ok" THEN "run_xor"
                       ELSE IF PairImported THEN "run_xor_phidl"
                       ELSE "run_xor_pya"
          /\ using_phidl <=> (imported["klayout.db"] = "missing" /\ PairImported)
          /\ using_macros <=> (imported["klayout.db"] = "missing" /\ ~ PairImported)
    /\ (pc \in {"pya", "import_gds1", "read1"}) =>
          pc = CASE run_xor = "run_xor" -> "read1"
                 [] run_xor = "run_xor_pya" -> "pya"
                 [] run_xor = "run_xor_phidl" -> "import_gds1"
                 [] OTHER -> "none"

\* nothing is installed, not even the klayout executable, and the subprocess
\* implementation was bound and called all the same
C6_Witness ==
    /\ imported["klayout.db"] = "missing"
    /\ imported["phidl"] = "missing"
    /\ ~ on_path
    /\ run_xor = "run_xor_pya"
    /\ proc = "not_found"

----------------------------------------------------------------------------
(* C7: the klayout subprocess implementation *)

\* C7: a call of run_xor_pya starts one subprocess; exit status 0 makes it
\* return normally, a non-zero status makes it raise GeometryDifference
\* naming both files, and a missing executable makes it raise a ToolingError,
\* not a file-not-found error, whose message carries the guidance.
C7_SubprocessOutcomeMapped ==
    (run_xor = "run_xor_pya" /\ CallOver)
        => /\ launches = 1
           /\ proc = "exit_zero" => exc = NoExc
           /\ proc = "exit_nonzero" =>
                 /\ exc.type = "GeometryDifference"
                 /\ exc.args.files = <<"file1", "file2">>
           /\ proc = "not_found" =>
                 /\ exc.type = "ToolingError"
                 /\ Str(exc).guidance

----------------------------------------------------------------------------
(* C8: the exit status of the script *)

\* C8: the script exits with status 0 exactly when run_xor returned normally;
\* after a GeometryDifference it exits with status 1 and the last line on
\* standard output is the message of the exception; after any other
\* exception the status is not 0.
C8_ExitCodeReflectsOutcome ==
    /\ pc = "exited" =>
          /\ exitcode = 0 <=> exc = NoExc
          /\ exc.type = "GeometryDifference" =>
                /\ exitcode = 1
                /\ Len(stdout) > 0
                /\ stdout[Len(stdout)] = Str(exc)
          /\ exc # NoExc => exitcode # 0
    /\ pc # "exited" => exitcode = Running

\* the executable was missing, the file-not-found error left the script
\* uncaught and the status is 1
C8_Witness ==
    /\ pc = "exited"
    /\ exc.type = "FileNotFoundError"
    /\ exitcode = 1
    /\ stdout = <<>>

----------------------------------------------------------------------------
(* C9: the geometric pass *)

\* the klayout.db run_xor went through its loop and then returned or raised
PassOver ==
    /\ KdbLoaded
    /\ CallOver
    /\ exc = NoExc \/ exc.args.template = DiffTemplate

\* C9: while the loop runs, diff tells whether any pair visited so far has a
\* non-empty XOR after the shrink; when the pass is over every pair of
\* top cells x layers was visited exactly once, and GeometryDifference was
\* raised exactly when some pair differs, which mentions neither the order
\* of the visits nor verbose.
C9_AllPairsOrAggregated ==
    /\ (KdbLoaded /\ pc = "xor") =>
          /\ Len(evaluated) = k
          /\ diff <=> \E i \in 1..k :
                         LET pr == PairAt(topcell_pairs, layer_pairs, i)
                         IN  PairDiffers(Region(l1, pr.cell, pr.lp[1]),
                                         Region(l2, pr.cell, pr.lp[2]), tolerance)
    /\ PassOver =>
          /\ Range(evaluated) = l1.cells \X (1..Len(l1.layers))
          /\ Len(evaluated) = Cardinality(l1.cells) * Len(l1.layers)
          /\ (exc.type = "GeometryDifference") <=> SomePairDiffers(l1, l2, tolerance)
          /\ (exc = NoExc) <=> ~ SomePairDiffers(l1, l2, tolerance)

\* four pairs were visited with verbose on; the first one differs and the
\* last one does not, and GeometryDifference was raised
C9_Witness ==
    /\ PassOver
    /\ pc = "raised"
    /\ verbose
    /\ Len(evaluated) = 4
    /\ LET first == PairAt(topcell_pairs, layer_pairs, 1)
           last == PairAt(topcell_pairs, layer_pairs, 4)
       IN  /\ PairDiffers(Region(l1, first.cell, first.lp[1]),
                          Region(l2, first.cell, first.lp[2]), tolerance)
           /\ ~ PairDiffers(Region(l1, last.cell, last.lp[1]),
                            Region(l2, last.cell, last.lp[2]), tolerance)
    /\ tolerance > 0
    /\ exc.type = "GeometryDifference"

----------------------------------------------------------------------------
(* C10: the order of the checks *)

\* the earliest check, in the order layers, top cells, dbu, that the two
\* layouts fail; "none" when they are comparable
EarliestMismatch ==
    IF LayerSet(l1) # LayerSet(l2) THEN LayerTemplate
    ELSE IF SortedNames(l1) # SortedNames(l2) THEN TopcellTemplate
    ELSE IF Abs(l1.dbu - l2.dbu) > Eps THEN DbuTemplate
    ELSE "none"

\* C10: when the layer sets, the sorted top cell names or the database units
\* of the two layouts do not match, the call builds no region at all and
\* ends in the error of the earliest failing check.
C10_NoGeometryAfterMismatch ==
    (KdbLoaded /\ EarliestMismatch # "none")
        => /\ evaluated = <<>>
           /\ CallOver => exc.args.template = EarliestMismatch

====
